---------------------------- MODULE Spec2Model ----------------------------
(***************************************************************************)
(* Model of the Dakhil grade engine of generate_excel.py and of the        *)
(* workbook formulas it writes.                                            *)
(*                                                                         *)
(* Numbers.  Marks are integers.  Every grade point, GPA and bonus is held *)
(* in ten-thousandths (5.0 is 50000, 3.1875 is 31875): grade points are    *)
(* multiples of 0.5, so the mean of eight of them and the bonus            *)
(* (gp - 2.0) / 8 are multiples of 0.0625, which a binary float holds      *)
(* exactly; the integer arithmetic below is therefore the float arithmetic *)
(* of the program.  A percentage marks / full_marks * 100 is compared with *)
(* a band by cross-multiplication, marks * 100 >= band * full_marks.       *)
(***************************************************************************)
EXTENDS Integers, Sequences, FiniteSets, TLC

VARIABLES
    row,        \* the student record: column name -> mark
    edits,      \* number of marks changed since the record was drawn
    pc,         \* position of the single-record computation
    final_gpa,  \* value returned by calculate_gpa_dakhil(row)
    grade,      \* value returned by calculate_letter_grade(final_gpa)
    console_grade, \* value returned by get_grade(final_gpa)
    sheet,      \* the computed cells of the record's Data Source row
    sheet_pc,   \* how far Excel's calculation chain has got in that row
    marks,      \* argument of calculate_grade_point (grade-point run)
    full_marks, \* argument of calculate_grade_point (grade-point run)
    gp,         \* value returned by calculate_grade_point(marks, full_marks)
    gp_pc,      \* position of the grade-point run
    fail_conditions, \* the list debug_fail_check.py builds for the record
    frames,     \* the DataFrame objects of generate_excel_file, by identity
    df,         \* the frame create_data_source returned
    df_with_gpa, \* the frame create_dashboard_sheet ranks (0: not yet made)
    df_console, \* the frame of the console summary (0: not yet made)
    ws_data,    \* the mark rows written to the Data Source sheet
    top_5_rows, \* Data Source row numbers listed under TOP 5 STUDENTS
    batch_pc,   \* position of generate_excel_file
    summary,    \* the figures of the console summary
    excel       \* the saved workbook as Excel holds and calculates it

vars == <<row, edits, pc, final_gpa, grade, console_grade, sheet, sheet_pc,
          fail_conditions, marks, full_marks, gp, gp_pc,
          frames, df, df_with_gpa, df_console, ws_data, top_5_rows, batch_pc,
          summary, excel>>

rowVars == <<row, edits, pc, final_gpa, grade, console_grade, sheet, sheet_pc,
             fail_conditions>>
gpVars == <<marks, full_marks, gp, gp_pc>>
batchVars == <<frames, df, df_with_gpa, df_console, ws_data, top_5_rows, batch_pc,
               summary, excel>>

---------------------------------------------------------------------------
(* Bounds of the model *)

\* marks changed in one record after it is drawn, and marks changed in the
\* Data Source sheet after the workbook is opened
MaxEdits == 1

\* calculate_grade_point is run on every mark in -MarkSlack .. 200 + MarkSlack
MarkSlack == 10

---------------------------------------------------------------------------
(* Pure helpers *)

Min(a, b) == IF a <= b THEN a ELSE b

RECURSIVE SumSeq(_)
SumSeq(s) == IF s = <<>> THEN 0 ELSE Head(s) + SumSeq(Tail(s))

\* Python round(x, 2) of a non-negative x that the float holds exactly:
\* round half to even.  x and the result are in ten-thousandths.
\* (variant: truncation to two decimals)
PyTruncRound2(x) == (x \div 100) * 100
PyRound2(x) ==
    LET q == x \div 100
        r == x % 100
    IN  IF r > 50 THEN (q + 1) * 100
        ELSE IF r < 50 THEN q * 100
        ELSE IF q % 2 = 0 THEN q * 100 ELSE (q + 1) * 100

\* Excel ROUND(x, 2) of a non-negative x: round half away from zero.
ExcelRound2(x) ==
    LET q == x \div 100
        r == x % 100
    IN  IF r >= 50 THEN (q + 1) * 100 ELSE q * 100

---------------------------------------------------------------------------
(* calculate_grade_point *)

\* percentage >= band, with percentage = (marks / full_marks) * 100
PctGE(m, full, band) == m * 100 >= band * full

\* (variant: lower bounds of the bands exclusive)
StrictBandsGradePoint(m, full) ==
    IF m * 100 > 80 * full THEN 50000
    ELSE IF m * 100 > 70 * full THEN 40000
    ELSE IF m * 100 > 60 * full THEN 35000
    ELSE IF m * 100 > 50 * full THEN 30000
    ELSE IF m * 100 > 40 * full THEN 20000
    ELSE IF m * 100 > 33 * full THEN 10000
    ELSE 0

calculate_grade_point(m, full) ==
    IF PctGE(m, full, 80) THEN 50000
    ELSE IF PctGE(m, full, 70) THEN 40000
    ELSE IF PctGE(m, full, 60) THEN 35000
    ELSE IF PctGE(m, full, 50) THEN 30000
    ELSE IF PctGE(m, full, 40) THEN 20000
    ELSE IF PctGE(m, full, 33) THEN 10000
    ELSE 0

---------------------------------------------------------------------------
(* calculate_gpa_dakhil *)

\* the dictionary compulsory_subjects, in insertion order; col2 "None" is
\* Python's None
compulsory_subjects == <<
    [name |-> "Quran_Hadith",    col1 |-> "Quran",               col2 |-> "Hadith",     full_marks |-> 200],
    [name |-> "Arabic",          col1 |-> "Arabic_I",            col2 |-> "Arabic_II",  full_marks |-> 200],
    [name |-> "Aqaid",           col1 |-> "Aqaid",               col2 |-> "None",       full_marks |-> 100],
    [name |-> "English",         col1 |-> "English_I",           col2 |-> "English_II", full_marks |-> 200],
    [name |-> "Bangla",          col1 |-> "Bangla_I_MCQ",        col2 |-> "None",       full_marks |-> 200],
    [name |-> "Mathematics",     col1 |-> "Mathematics_MCQ",     col2 |-> "None",       full_marks |-> 100],
    [name |-> "Islamic_History", col1 |-> "Islamic_History_MCQ", col2 |-> "None",       full_marks |-> 100],
    [name |-> "ICT",             col1 |-> "ICT",                 col2 |-> "None",       full_marks |-> 50] >>

\* min_passing of the general check, in hundredths of a mark:
\* 25 * 0.33 for ICT, full_marks * 0.33 otherwise
\* (variant: ICT held to 33% of its full marks as well)
IctFullMarksMinPassing100(s) == s.full_marks * 33
min_passing100(s) ==
    IF s.name = "ICT" THEN 25 * 33 ELSE s.full_marks * 33

\* Bangla: individual_pass or combined_pass
\* (variant: no combined route)
BanglaIndividualOnly(r) ==
    /\ r["Bangla_I_MCQ"] >= 10 /\ r["Bangla_I_Written"] >= 23
    /\ r["Bangla_II_MCQ"] >= 10 /\ r["Bangla_II_Written"] >= 23
BanglaPass(r) ==
    LET b1_mcq == r["Bangla_I_MCQ"]
        b1_written == r["Bangla_I_Written"]
        b2_mcq == r["Bangla_II_MCQ"]
        b2_written == r["Bangla_II_Written"]
        total_mcq == b1_mcq + b2_mcq
        total_written == b1_written + b2_written
        individual_pass == /\ b1_mcq >= 10 /\ b1_written >= 23
                           /\ b2_mcq >= 10 /\ b2_written >= 23
        combined_pass == total_mcq >= 20 /\ total_written >= 46
    IN  individual_pass \/ combined_pass

\* one iteration of the first loop: TRUE iff it executes "return 0.0"
\* (variant: Mathematics and Islamic History also pass on their total)
SubjectFailsTotalRoute(r, s) ==
    LET general_marks == IF s.col2 # "None" THEN r[s.col1] + r[s.col2]
                         ELSE r[s.col1]
    IN  IF s.name = "ICT" THEN general_marks * 100 < min_passing100(s)
        ELSE IF s.name = "Bangla" THEN ~ BanglaPass(r)
        ELSE IF s.name = "Mathematics"
            THEN ~ (\/ r["Mathematics_MCQ"] >= 10 /\ r["Mathematics_Written"] >= 23
                    \/ r["Mathematics_MCQ"] + r["Mathematics_Written"] >= 33)
        ELSE IF s.name = "Islamic_History"
            THEN ~ (\/ r["Islamic_History_MCQ"] >= 10 /\ r["Islamic_History_Written"] >= 23
                    \/ r["Islamic_History_MCQ"] + r["Islamic_History_Written"] >= 33)
        ELSE general_marks * 100 < min_passing100(s)
SubjectFails(r, s) ==
    LET general_marks == IF s.col2 # "None" THEN r[s.col1] + r[s.col2]
                         ELSE r[s.col1]
    IN  IF s.name = "ICT" THEN general_marks * 100 < min_passing100(s)
        ELSE IF s.name = "Bangla" THEN ~ BanglaPass(r)
        ELSE IF s.name = "Mathematics"
            THEN ~ (r["Mathematics_MCQ"] >= 10 /\ r["Mathematics_Written"] >= 23)
        ELSE IF s.name = "Islamic_History"
            THEN ~ (r["Islamic_History_MCQ"] >= 10 /\ r["Islamic_History_Written"] >= 23)
        ELSE general_marks * 100 < min_passing100(s)

\* the check of the continuous assessment subjects
\* (variants: the check left out; the minimum at 40)
NoContinuousCheck(r) == FALSE
ContinuousFailsBelow40(r) ==
    r["Career_Education"] < 40 \/ r["Physical_Education"] < 40
ContinuousFails(r) ==
    r["Career_Education"] < 33 \/ r["Physical_Education"] < 33

\* marks of the second loop
\* (variant: Bangla counted on its first paper only)
SubjectMarksBanglaFirstPaper(r, s) ==
    IF s.name = "Bangla" THEN r["Bangla_I_MCQ"] + r["Bangla_I_Written"]
    ELSE IF s.name = "Mathematics"
        THEN r["Mathematics_MCQ"] + r["Mathematics_Written"]
    ELSE IF s.name = "Islamic_History"
        THEN r["Islamic_History_MCQ"] + r["Islamic_History_Written"]
    ELSE IF s.col2 # "None" THEN r[s.col1] + r[s.col2]
    ELSE r[s.col1]
SubjectMarks(r, s) ==
    IF s.name = "Bangla"
        THEN r["Bangla_I_MCQ"] + r["Bangla_I_Written"]
             + r["Bangla_II_MCQ"] + r["Bangla_II_Written"]
    ELSE IF s.name = "Mathematics"
        THEN r["Mathematics_MCQ"] + r["Mathematics_Written"]
    ELSE IF s.name = "Islamic_History"
        THEN r["Islamic_History_MCQ"] + r["Islamic_History_Written"]
    ELSE IF s.col2 # "None" THEN r[s.col1] + r[s.col2]
    ELSE r[s.col1]

grade_points(r) ==
    [i \in 1..Len(compulsory_subjects) |->
        calculate_grade_point(SubjectMarks(r, compulsory_subjects[i]),
                              compulsory_subjects[i].full_marks)]

\* sum(grade_points) / len(grade_points)
base_gpa(r) == SumSeq(grade_points(r)) \div Len(grade_points(r))

\* the Mantiq bonus added to base_gpa
\* (variant: the difference is added whatever its sign)
PenalisingBonus(r) ==
    (calculate_grade_point(r["Mantiq"], 100) - 20000) \div Len(compulsory_subjects)
\* (variant: no bonus for a Mantiq grade point of 5.0)
BonusBelowTopBand(r) ==
    LET mantiq_gp == calculate_grade_point(r["Mantiq"], 100)
    IN  IF mantiq_gp >= 20000 /\ mantiq_gp < 50000
        THEN (mantiq_gp - 20000) \div Len(compulsory_subjects)
        ELSE 0
MantiqBonus(r) ==
    LET mantiq_gp == calculate_grade_point(r["Mantiq"], 100)
    IN  IF mantiq_gp >= 20000
        THEN (mantiq_gp - 20000) \div Len(compulsory_subjects)
        ELSE 0

\* (variant: no cap at 5.0)
UncappedGpa(r) ==
    IF \E i \in 1..Len(compulsory_subjects) : SubjectFails(r, compulsory_subjects[i])
        THEN 0
    ELSE IF ContinuousFails(r) THEN 0
    ELSE PyRound2(base_gpa(r) + MantiqBonus(r))

calculate_gpa_dakhil(r) ==
    IF \E i \in 1..Len(compulsory_subjects) : SubjectFails(r, compulsory_subjects[i])
        THEN 0
    ELSE IF ContinuousFails(r) THEN 0
    ELSE Min(50000, PyRound2(base_gpa(r) + MantiqBonus(r)))

calculate_letter_grade(gpa) ==
    IF gpa >= 50000 THEN "A+"
    ELSE IF gpa >= 40000 THEN "A"
    ELSE IF gpa >= 35000 THEN "A-"
    ELSE IF gpa >= 30000 THEN "B"
    ELSE IF gpa >= 20000 THEN "C"
    ELSE IF gpa >= 10000 THEN "D"
    ELSE "F"

\* the console helper nested in generate_excel_file
\* (variant: 3.5 itself not in the A- band)
GetGradeStrictAMinus(gpa) ==
    IF gpa >= 50000 THEN "A+"
    ELSE IF gpa >= 40000 THEN "A"
    ELSE IF gpa > 35000 THEN "A-"
    ELSE IF gpa >= 30000 THEN "B"
    ELSE IF gpa >= 20000 THEN "C"
    ELSE IF gpa >= 10000 THEN "D"
    ELSE "F"

get_grade(gpa) ==
    IF gpa >= 50000 THEN "A+"
    ELSE IF gpa >= 40000 THEN "A"
    ELSE IF gpa >= 35000 THEN "A-"
    ELSE IF gpa >= 30000 THEN "B"
    ELSE IF gpa >= 20000 THEN "C"
    ELSE IF gpa >= 10000 THEN "D"
    ELSE "F"

---------------------------------------------------------------------------
(* The Data Source sheet: columns and the formulas of one student row *)

\* the mark columns of the DataFrame, in the order create_data_source
\* returns them; dataframe_to_rows writes them to columns C..U
subjects == <<
    "Quran", "Hadith", "Arabic_I", "Arabic_II", "Aqaid", "English_I", "English_II",
    "Bangla_I_MCQ", "Bangla_I_Written", "Bangla_II_MCQ", "Bangla_II_Written",
    "Mathematics_MCQ", "Mathematics_Written",
    "Islamic_History_MCQ", "Islamic_History_Written",
    "ICT", "Mantiq", "Career_Education", "Physical_Education" >>

MarkColumns == {subjects[i] : i \in 1..Len(subjects)}

ColumnLetters == <<"C", "D", "E", "F", "G", "H", "I", "J", "K", "L", "M",
                   "N", "O", "P", "Q", "R", "S", "T", "U">>

\* the DataFrame column written to each column letter
ColumnOf ==
    [c \in {ColumnLetters[i] : i \in 1..Len(ColumnLetters)} |->
        subjects[CHOOSE i \in 1..Len(ColumnLetters) : ColumnLetters[i] = c]]

\* the value of the mark cell in column letter c of the row written from r
Cell(r, c) == r[ColumnOf[c]]

\* the nested IF of the helper grade-point columns; pct2 is twice the
\* percentage the formula compares (the formulas halve a 200-mark sum)
ExcelBands(pct2) ==
    IF pct2 >= 160 THEN 50000
    ELSE IF pct2 >= 140 THEN 40000
    ELSE IF pct2 >= 120 THEN 35000
    ELSE IF pct2 >= 100 THEN 30000
    ELSE IF pct2 >= 80 THEN 20000
    ELSE IF pct2 >= 66 THEN 10000
    ELSE 0

Col_AA(r) ==
    ~ (\/ /\ Cell(r, "J") >= 10 /\ Cell(r, "K") >= 23
          /\ Cell(r, "L") >= 10 /\ Cell(r, "M") >= 23
       \/ /\ Cell(r, "J") + Cell(r, "L") >= 20
          /\ Cell(r, "K") + Cell(r, "M") >= 46)
Col_AB(r) == Cell(r, "N") < 10 \/ Cell(r, "O") < 23
Col_AC(r) == Cell(r, "P") < 10 \/ Cell(r, "Q") < 23
\* (variant: Physical Education not checked)
Col_AD_WithoutPhysical(r) ==
    \/ Cell(r, "C") + Cell(r, "D") < 66
    \/ Cell(r, "E") + Cell(r, "F") < 66
    \/ Cell(r, "G") < 33
    \/ Cell(r, "H") + Cell(r, "I") < 66
    \/ Col_AA(r) \/ Col_AB(r) \/ Col_AC(r)
    \/ Cell(r, "R") * 100 < 825
    \/ Cell(r, "T") < 33
Col_AD(r) ==
    \/ Cell(r, "C") + Cell(r, "D") < 66
    \/ Cell(r, "E") + Cell(r, "F") < 66
    \/ Cell(r, "G") < 33
    \/ Cell(r, "H") + Cell(r, "I") < 66
    \/ Col_AA(r) \/ Col_AB(r) \/ Col_AC(r)
    \/ Cell(r, "R") * 100 < 825
    \/ Cell(r, "T") < 33
    \/ Cell(r, "U") < 33

Col_AE(r) == IF Cell(r, "C") + Cell(r, "D") < 66 THEN 0
             ELSE ExcelBands(Cell(r, "C") + Cell(r, "D"))
Col_AF(r) == IF Cell(r, "E") + Cell(r, "F") < 66 THEN 0
             ELSE ExcelBands(Cell(r, "E") + Cell(r, "F"))
Col_AG(r) == IF Cell(r, "G") < 33 THEN 0 ELSE ExcelBands(2 * Cell(r, "G"))
Col_AH(r) == IF Cell(r, "H") + Cell(r, "I") < 66 THEN 0
             ELSE ExcelBands(Cell(r, "H") + Cell(r, "I"))
Col_AI(r) == IF Col_AA(r) THEN 0
             ELSE ExcelBands(Cell(r, "J") + Cell(r, "K") + Cell(r, "L") + Cell(r, "M"))
\* (variant: the bands applied without the fail check)
Col_AJ_BandsOnly(r) == ExcelBands(2 * (Cell(r, "N") + Cell(r, "O")))
Col_AJ(r) == IF Col_AB(r) THEN 0
             ELSE ExcelBands(2 * (Cell(r, "N") + Cell(r, "O")))
Col_AK(r) == IF Col_AC(r) THEN 0
             ELSE ExcelBands(2 * (Cell(r, "P") + Cell(r, "Q")))
Col_AL(r) == IF Cell(r, "R") * 100 < 825 THEN 0
             ELSE ExcelBands(2 * (Cell(r, "R") * 2))
Col_AM(r) == IF Cell(r, "S") < 33 THEN 0 ELSE ExcelBands(2 * Cell(r, "S"))

Col_AN(r) ==
    (Col_AE(r) + Col_AF(r) + Col_AG(r) + Col_AH(r)
     + Col_AI(r) + Col_AJ(r) + Col_AK(r) + Col_AL(r)) \div 8

Col_AO(r) == IF Col_AM(r) >= 20000 THEN (Col_AM(r) - 20000) \div 8 ELSE 0

Col_X(r) == IF Col_AD(r) THEN 0 ELSE ExcelRound2(Col_AN(r))

Col_Y(r) ==
    IF Col_AD(r) THEN 0 ELSE Min(50000, ExcelRound2(Col_AN(r) + Col_AO(r)))

\* the formula of column Z, applied to the value y of column Y
Col_Z(y) ==
    IF y >= 50000 THEN "A+"
    ELSE IF y >= 40000 THEN "A"
    ELSE IF y >= 35000 THEN "A-"
    ELSE IF y >= 30000 THEN "B"
    ELSE IF y >= 20000 THEN "C"
    ELSE IF y >= 10000 THEN "D"
    ELSE "F"

\* the helper grade-point cells AE..AM of the row, in column order
HelperCells(r) ==
    <<Col_AE(r), Col_AF(r), Col_AG(r), Col_AH(r), Col_AI(r), Col_AJ(r),
      Col_AK(r), Col_AL(r), Col_AM(r)>>

\* the formula of the cells C..K of the Subject Grades sheet, applied to
\* the helper cell it refers to
SubjectGradeCell(helper) ==
    IF helper >= 50000 THEN "A+"
    ELSE IF helper >= 40000 THEN "A"
    ELSE IF helper >= 35000 THEN "A-"
    ELSE IF helper >= 30000 THEN "B"
    ELSE IF helper >= 20000 THEN "C"
    ELSE IF helper >= 10000 THEN "D"
    ELSE "F"

\* the cells C..K of the student's row of the Subject Grades sheet
SubjectGradesRow(r) ==
    [k \in 1..Len(HelperCells(r)) |-> SubjectGradeCell(HelperCells(r)[k])]

\* the cells C..K of the student's row of the Subject-wise GPA sheet,
\* each a reference to one of AE..AM
SubjectwiseGpaRow(r) == [k \in 1..Len(HelperCells(r)) |-> HelperCells(r)[k]]

\* the row's computed cells before Excel has calculated them; GP holds the
\* grade-point helper cells AE..AL, SG the cells C..K of the row in the
\* Subject Grades sheet and SW those of the Subject-wise GPA sheet
BlankSheet ==
    [AA |-> FALSE, AB |-> FALSE, AC |-> FALSE, AD |-> FALSE,
     GP |-> <<0, 0, 0, 0, 0, 0, 0, 0>>, AM |-> 0, AN |-> 0, AO |-> 0,
     X |-> 0, Y |-> 0, Z |-> "",
     SG |-> <<"", "", "", "", "", "", "", "", "">>,
     SW |-> <<0, 0, 0, 0, 0, 0, 0, 0, 0>>]

\* debug_fail_check.py on the sheet row written from r: the list
\* fail_conditions it builds, each entry named by the label it starts with
debug_fail_check(r) ==
    LET Failed(label, cond) == IF cond THEN <<label>> ELSE <<>>
        individual_pass == /\ Cell(r, "J") >= 10 /\ Cell(r, "K") >= 23
                           /\ Cell(r, "L") >= 10 /\ Cell(r, "M") >= 23
        combined_pass == /\ Cell(r, "J") + Cell(r, "L") >= 20
                         /\ Cell(r, "K") + Cell(r, "M") >= 46
        bangla_pass == individual_pass \/ combined_pass
    IN  Failed("Quran+Hadith", Cell(r, "C") + Cell(r, "D") < 66)
        \o Failed("Arabic", Cell(r, "E") + Cell(r, "F") < 66)
        \o Failed("Aqaid", Cell(r, "G") < 33)
        \o Failed("English", Cell(r, "H") + Cell(r, "I") < 66)
        \o Failed("Bangla", ~ bangla_pass)
        \o Failed("Math", Cell(r, "N") < 10 \/ Cell(r, "O") < 23)
        \o Failed("History", Cell(r, "P") < 10 \/ Cell(r, "Q") < 23)
        \o Failed("ICT", Cell(r, "R") * 100 < 825)
        \o Failed("Career", Cell(r, "T") < 33)
        \o Failed("Physical", Cell(r, "U") < 33)

---------------------------------------------------------------------------
(* Records the single-record run is made on *)

\* the record whose marks are the sequence v, in the order of subjects
RowOf(v) ==
    [c \in MarkColumns |-> v[CHOOSE i \in 1..Len(subjects) : subjects[i] = c]]

\* every subject at full marks
PerfectRow ==
    RowOf(<<100, 100, 100, 100, 100, 100, 100, 30, 70, 30, 70, 30, 70, 30, 70,
            50, 100, 100, 100>>)

\* every compulsory subject exactly at 80% of its full marks
Boundary80Row ==
    RowOf(<<80, 80, 80, 80, 80, 80, 80, 24, 56, 24, 56, 24, 56, 24, 56,
            40, 80, 80, 80>>)

\* every subject at the least mark that passes its check
PassMinRow ==
    RowOf(<<33, 33, 33, 33, 33, 33, 33, 10, 23, 10, 23, 10, 23, 10, 23,
            9, 33, 33, 33>>)

\* every compulsory subject at 50% (grade point 3.0), Mantiq at 60%
HalfMarksRow ==
    RowOf(<<50, 50, 50, 50, 50, 50, 50, 15, 35, 15, 35, 15, 35, 15, 35,
            25, 60, 50, 50>>)

\* Bangla failing term 1 individually and passing on the combined totals
BanglaCombinedRow ==
    RowOf(<<100, 100, 100, 100, 100, 100, 100, 8, 25, 15, 25, 30, 70, 30, 70,
            50, 100, 100, 100>>)

\* Bangla exactly on the combined minimums, below the individual ones
BanglaEdgeRow ==
    RowOf(<<80, 80, 80, 80, 80, 80, 80, 8, 22, 12, 24, 24, 56, 24, 56,
            40, 80, 80, 80>>)

\* the compulsory subjects in eight different bands (5, 4, 3.5, 3, 2, 1, 5
\* and 0), ICT passing its check with grade point 0
MixedBandsRow ==
    RowOf(<<80, 80, 70, 70, 60, 50, 50, 12, 28, 12, 28, 10, 23, 24, 56,
            16, 39, 33, 33>>)

\* records of create_data_source (random.seed(42)): the tenth (mean plus
\* bonus 4.625), the first (Bangla fails) and the second
SampleRow ==
    RowOf(<<87, 90, 94, 79, 74, 89, 81, 13, 58, 13, 21, 14, 61, 25, 49,
            45, 76, 84, 95>>)
SampleFailRow ==
    RowOf(<<67, 78, 66, 89, 64, 68, 62, 8, 52, 10, 43, 15, 26, 22, 50,
            36, 75, 74, 77>>)
SampleSecondRow ==
    RowOf(<<61, 72, 65, 74, 70, 86, 84, 11, 58, 10, 48, 10, 62, 12, 33,
            31, 57, 91, 82>>)

BaseRows == {PerfectRow, Boundary80Row, PassMinRow, HalfMarksRow,
             BanglaCombinedRow, BanglaEdgeRow, MixedBandsRow,
             SampleRow, SampleFailRow, SampleSecondRow}

\* the marks one column is changed to
MarkValues(c) ==
    IF c \in {"Quran", "Hadith"} THEN {32, 33, 60, 80, 100}
    ELSE IF c \in {"Arabic_I", "Arabic_II", "English_I", "English_II"}
        THEN {32, 33, 80}
    ELSE IF c = "Aqaid" THEN {32, 33, 40, 50, 60, 70, 80}
    ELSE IF c = "Bangla_I_MCQ" THEN {8, 10, 12, 31}
    ELSE IF c = "Bangla_II_MCQ" THEN {8, 10, 12}
    ELSE IF c \in {"Bangla_I_Written", "Bangla_II_Written"} THEN {22, 23, 24}
    ELSE IF c = "Mathematics_MCQ" THEN {9, 10, 30, 40}
    ELSE IF c = "Mathematics_Written" THEN {22, 23, 70}
    ELSE IF c = "Islamic_History_MCQ" THEN {9, 10}
    ELSE IF c = "Islamic_History_Written" THEN {22, 23}
    ELSE IF c = "ICT" THEN {8, 9, 16, 17, 25, 40, 60}
    ELSE IF c = "Mantiq" THEN {-5, 32, 39, 40, 60, 70, 100}
    ELSE {32, 33}

---------------------------------------------------------------------------
(* The single-record run: a record is drawn, calculate_gpa_dakhil and the  *)
(* two letter-grade functions are applied to it, and Excel calculates the  *)
(* formulas of its Data Source row.                                        *)

GpIdle == marks = 0 /\ full_marks = 100 /\ gp = 0 /\ gp_pc = "idle"

\* the console summary before it is computed
NoSummary == [avg_gpa |-> <<0, 1>>, num_a_plus |-> 0, pass_rate |-> <<0, 1>>]

\* the workbook before Excel has opened it.  C5, L5, B9:B15, E9:E17,
\* F9:F17 and I9:I13 are Dashboard cells, Y and Z columns of the Data
\* Source sheet
ClosedBook ==
    [state |-> "closed", mode |-> "", edits |-> 0, data |-> <<>>,
     Y |-> <<>>, Z |-> <<>>, C5 |-> 0, L5 |-> <<0, 1>>,
     B |-> <<>>, E |-> <<>>, F |-> <<>>, I |-> <<>>]

BatchIdle ==
    /\ frames = <<>> /\ df = 0 /\ df_with_gpa = 0 /\ df_console = 0
    /\ ws_data = <<>> /\ top_5_rows = <<>> /\ batch_pc = "idle"
    /\ summary = NoSummary /\ excel = ClosedBook

Init ==
    /\ row \in BaseRows
    /\ edits = 0
    /\ pc = "input"
    /\ final_gpa = 0
    /\ grade = ""
    /\ console_grade = ""
    /\ sheet = BlankSheet
    /\ sheet_pc = "stale"
    /\ fail_conditions = <<>>
    /\ GpIdle
    /\ BatchIdle

\* a mark of the record is entered
SetMark ==
    /\ pc = "input"
    /\ edits < MaxEdits
    /\ \E c \in MarkColumns : \E v \in MarkValues(c) :
        /\ v # row[c]
        /\ row' = [row EXCEPT ![c] = v]
    /\ edits' = edits + 1
    /\ UNCHANGED <<pc, final_gpa, grade, console_grade, sheet, sheet_pc,
                   fail_conditions>>
    /\ UNCHANGED <<gpVars, batchVars>>

CalculateGpa ==
    /\ pc = "input"
    /\ final_gpa' = calculate_gpa_dakhil(row)
    /\ pc' = "gpa"
    /\ UNCHANGED <<row, edits, grade, console_grade, sheet, sheet_pc,
                   fail_conditions>>
    /\ UNCHANGED <<gpVars, batchVars>>

CalculateLetterGrade ==
    /\ pc = "gpa"
    /\ grade = ""
    /\ grade' = calculate_letter_grade(final_gpa)
    /\ UNCHANGED <<row, edits, pc, final_gpa, console_grade, sheet, sheet_pc,
                   fail_conditions>>
    /\ UNCHANGED <<gpVars, batchVars>>

GetGrade ==
    /\ pc = "gpa"
    /\ grade # ""
    /\ console_grade' = get_grade(final_gpa)
    /\ pc' = "graded"
    /\ UNCHANGED <<row, edits, final_gpa, grade, sheet, sheet_pc,
                   fail_conditions>>
    /\ UNCHANGED <<gpVars, batchVars>>

\* Excel calculates the formulas of the row: the helper columns, the GPA
\* columns and the grade column, and the cells of the Subject Grades and
\* Subject-wise GPA sheets that refer to them
Recalculate ==
    /\ pc = "graded"
    /\ sheet_pc = "stale"
    /\ sheet' = [AA |-> Col_AA(row), AB |-> Col_AB(row), AC |-> Col_AC(row),
                 AD |-> Col_AD(row),
                 GP |-> <<Col_AE(row), Col_AF(row), Col_AG(row), Col_AH(row),
                          Col_AI(row), Col_AJ(row), Col_AK(row), Col_AL(row)>>,
                 AM |-> Col_AM(row), AN |-> Col_AN(row), AO |-> Col_AO(row),
                 X |-> Col_X(row), Y |-> Col_Y(row), Z |-> Col_Z(Col_Y(row)),
                 SG |-> SubjectGradesRow(row), SW |-> SubjectwiseGpaRow(row)]
    /\ sheet_pc' = "calculated"
    /\ UNCHANGED <<row, edits, pc, final_gpa, grade, console_grade,
                   fail_conditions>>
    /\ UNCHANGED <<gpVars, batchVars>>

\* debug_fail_check.py is run on the workbook; the record is the one in
\* the sheet row the script reads
DebugFailCheck ==
    /\ pc = "graded"
    /\ sheet_pc = "calculated"
    /\ fail_conditions' = debug_fail_check(row)
    /\ sheet_pc' = "checked"
    /\ UNCHANGED <<row, edits, pc, final_gpa, grade, console_grade, sheet>>
    /\ UNCHANGED <<gpVars, batchVars>>

Next ==
    \/ SetMark
    \/ CalculateGpa
    \/ CalculateLetterGrade
    \/ GetGrade
    \/ Recalculate
    \/ DebugFailCheck

Spec == Init /\ [][Next]_vars

---------------------------------------------------------------------------
(* The grade-point run: calculate_grade_point applied to one mark *)

RowIdle ==
    /\ row = PerfectRow /\ edits = 0 /\ pc = "idle" /\ final_gpa = 0
    /\ grade = "" /\ console_grade = "" /\ sheet = BlankSheet /\ sheet_pc = "idle"
    /\ fail_conditions = <<>>

InitGP ==
    /\ marks \in (0 - MarkSlack)..(200 + MarkSlack)
    /\ full_marks \in {50, 100, 200}
    /\ gp = 0
    /\ gp_pc = "call"
    /\ RowIdle
    /\ BatchIdle

GradePoint ==
    /\ gp_pc = "call"
    /\ gp' = calculate_grade_point(marks, full_marks)
    /\ gp_pc' = "returned"
    /\ UNCHANGED <<marks, full_marks>>
    /\ UNCHANGED <<rowVars, batchVars>>

NextGP == GradePoint

SpecGP == InitGP /\ [][NextGP]_vars

---------------------------------------------------------------------------
(* The letter-grade run: the three encodings of the letter bands applied   *)
(* to one final GPA, a multiple of 0.01 in [0, 5]                          *)

InitLetter ==
    /\ final_gpa \in {h * 100 : h \in 0..500}
    /\ pc = "gpa"
    /\ row = PerfectRow
    /\ edits = 0
    /\ grade = ""
    /\ console_grade = ""
    /\ sheet = [BlankSheet EXCEPT !.Y = final_gpa]
    /\ sheet_pc = "Y"
    /\ fail_conditions = <<>>
    /\ GpIdle
    /\ BatchIdle

\* Excel calculates column Z from the value of column Y
RecalcGradeCell ==
    /\ sheet_pc = "Y"
    /\ sheet' = [sheet EXCEPT !.Z = Col_Z(sheet.Y)]
    /\ sheet_pc' = "calculated"
    /\ UNCHANGED <<row, edits, pc, final_gpa, grade, console_grade,
                   fail_conditions>>
    /\ UNCHANGED <<gpVars, batchVars>>

NextLetter ==
    \/ CalculateLetterGrade
    \/ GetGrade
    \/ RecalcGradeCell

SpecLetter == InitLetter /\ [][NextLetter]_vars

---------------------------------------------------------------------------
(* The boundary run: the single-record computation on records whose eight  *)
(* compulsory subjects are each exactly at 80% of their full marks, in     *)
(* several splits of the marks over the subject's components               *)

Boundary80Rows ==
    {RowOf(<<q, 160 - q, a, 160 - a, 80, e, 160 - e, b[1], b[2], b[3], b[4],
             m, 80 - m, h, 80 - h, 40, mq, ca[1], ca[2]>>) :
        q \in {60, 80, 100}, a \in {60, 100}, e \in {80, 100},
        b \in {<<24, 56, 24, 56>>, <<30, 70, 0, 60>>, <<10, 70, 30, 50>>,
               <<30, 50, 30, 50>>},
        m \in {10, 24, 30}, h \in {10, 30}, mq \in {0, 40, 100},
        ca \in {<<100, 100>>, <<33, 33>>, <<32, 100>>, <<100, 32>>}}

InitBoundary ==
    /\ row \in Boundary80Rows
    /\ edits = 0
    /\ pc = "input"
    /\ final_gpa = 0
    /\ grade = ""
    /\ console_grade = ""
    /\ sheet = BlankSheet
    /\ sheet_pc = "stale"
    /\ fail_conditions = <<>>
    /\ GpIdle
    /\ BatchIdle

NextBoundary ==
    \/ CalculateGpa
    \/ CalculateLetterGrade
    \/ GetGrade
    \/ Recalculate

SpecBoundary == InitBoundary /\ [][NextBoundary]_vars

---------------------------------------------------------------------------
(* The comparison run: calculate_gpa_dakhil applied to records that are    *)
(* built subject by subject from marks below, on and above the pass        *)
(* minimums and in several bands, so that many of them are mark by mark    *)
(* at least as high as others                                              *)

MonoRows ==
    {RowOf(<<qh[1], qh[2], 33, 33, aq, 33, 33, b[1], b[2], b[3], b[4],
             m[1], m[2], 10, 23, ict, mq, ca[1], ca[2]>>) :
        qh \in {<<32, 33>>, <<33, 33>>, <<80, 80>>},
        aq \in {32, 50, 80},
        b \in {<<8, 22, 10, 23>>, <<8, 22, 12, 24>>, <<10, 23, 10, 23>>,
               <<24, 56, 24, 56>>},
        m \in {<<9, 70>>, <<10, 23>>, <<30, 70>>},
        ict \in {8, 9, 17, 40},
        mq \in {32, 70, 100},
        ca \in {<<32, 33>>, <<33, 33>>}}

InitMono ==
    /\ row \in MonoRows
    /\ edits = 0
    /\ pc = "input"
    /\ final_gpa = 0
    /\ grade = ""
    /\ console_grade = ""
    /\ sheet = BlankSheet
    /\ sheet_pc = "stale"
    /\ fail_conditions = <<>>
    /\ GpIdle
    /\ BatchIdle

NextMono == CalculateGpa

SpecMono == InitMono /\ [][NextMono]_vars

---------------------------------------------------------------------------
(* The report generation: generate_excel_file on a table of student        *)
(* records                                                                 *)

\* a cell that holds text (such as 'AB' for an absent student) in place of
\* a number is written as this value; the model never uses it as a number.
\* create_data_source draws integers only, so no table of the report
\* generation holds one
TextMark == 0 - 1000

IsText(v) == v = TextMark

\* the table create_data_source returns: random.seed(42) makes the draws
\* the same in every run, so the 20 records are always these, in this order
create_data_source == <<
    SampleFailRow,
    SampleSecondRow,
    RowOf(<<77, 79, 84, 67, 94, 80, 61, 25, 32, 23, 53, 9, 47, 21, 45,
            48, 86, 90, 86>>),
    RowOf(<<75, 83, 66, 92, 75, 84, 87, 16, 29, 10, 48, 18, 42, 13, 23,
            47, 65, 79, 84>>),
    RowOf(<<74, 73, 82, 72, 70, 64, 63, 28, 43, 25, 27, 10, 47, 16, 30,
            31, 87, 84, 80>>),
    RowOf(<<68, 90, 82, 92, 89, 71, 64, 18, 30, 12, 35, 24, 46, 22, 44,
            40, 88, 80, 89>>),
    RowOf(<<66, 92, 76, 68, 84, 63, 80, 11, 54, 12, 34, 15, 49, 15, 20,
            31, 52, 94, 92>>),
    RowOf(<<94, 65, 62, 77, 77, 70, 65, 17, 53, 23, 24, 16, 23, 10, 44,
            31, 89, 72, 84>>),
    RowOf(<<65, 89, 89, 73, 95, 90, 85, 21, 20, 25, 41, 23, 63, 22, 36,
            48, 55, 70, 94>>),
    SampleRow,
    RowOf(<<62, 70, 67, 85, 80, 71, 73, 22, 40, 16, 57, 25, 61, 11, 38,
            46, 87, 89, 91>>),
    RowOf(<<61, 87, 84, 91, 63, 92, 79, 8, 51, 24, 55, 12, 26, 9, 47,
            46, 86, 88, 75>>),
    RowOf(<<65, 78, 65, 76, 74, 82, 62, 16, 21, 27, 34, 26, 23, 28, 64,
            35, 83, 73, 92>>),
    RowOf(<<73, 75, 95, 70, 62, 92, 72, 24, 27, 21, 57, 26, 45, 25, 55,
            31, 70, 72, 84>>),
    RowOf(<<74, 73, 78, 76, 80, 80, 72, 13, 43, 14, 34, 23, 41, 8, 62,
            46, 66, 87, 78>>),
    RowOf(<<92, 69, 83, 76, 85, 78, 79, 24, 39, 25, 20, 15, 26, 10, 65,
            32, 63, 76, 79>>),
    RowOf(<<61, 71, 72, 71, 77, 69, 74, 11, 35, 14, 24, 23, 35, 15, 51,
            35, 70, 86, 83>>),
    RowOf(<<95, 95, 64, 86, 64, 63, 76, 28, 23, 17, 65, 21, 32, 13, 29,
            32, 65, 78, 78>>),
    RowOf(<<72, 89, 62, 73, 73, 87, 68, 17, 35, 20, 60, 14, 32, 21, 32,
            32, 66, 74, 78>>),
    RowOf(<<94, 75, 74, 87, 80, 86, 77, 28, 56, 28, 23, 11, 54, 23, 38,
            37, 75, 81, 92>>) >>

\* What calculate_gpa_dakhil does on a record that holds at most one text
\* mark.  An arithmetic operation or a comparison of text with a number
\* raises TypeError.  One iteration of the first loop either raises, executes
\* "return 0.0", or goes on to the next subject.
SubjectOutcome(r, s) ==
    IF s.name = "Bangla"
        THEN IF \E c \in {"Bangla_I_MCQ", "Bangla_I_Written",
                          "Bangla_II_MCQ", "Bangla_II_Written"} : IsText(r[c])
                THEN "raise"
             ELSE IF ~ BanglaPass(r) THEN "return" ELSE "continue"
    ELSE IF s.name \in {"Mathematics", "Islamic_History"}
        THEN LET mcq == r[s.name \o "_MCQ"]
                 written == r[s.name \o "_Written"]
             IN  IF IsText(mcq) THEN "raise"
                 ELSE IF ~ (mcq >= 10) THEN "return"
                 ELSE IF IsText(written) THEN "raise"
                 ELSE IF ~ (written >= 23) THEN "return"
                 ELSE "continue"
    ELSE IF IsText(r[s.col1]) \/ (s.col2 # "None" /\ IsText(r[s.col2]))
        THEN "raise"
    ELSE IF SubjectFails(r, s) THEN "return"
    ELSE "continue"

RECURSIVE FirstLoopOutcome(_, _)
FirstLoopOutcome(r, i) ==
    IF i > Len(compulsory_subjects) THEN "continue"
    ELSE LET o == SubjectOutcome(r, compulsory_subjects[i])
         IN  IF o = "continue" THEN FirstLoopOutcome(r, i + 1) ELSE o

ContinuousOutcome(r) ==
    IF IsText(r["Career_Education"]) THEN "raise"
    ELSE IF r["Career_Education"] < 33 THEN "return"
    ELSE IF IsText(r["Physical_Education"]) THEN "raise"
    ELSE IF r["Physical_Education"] < 33 THEN "return"
    ELSE "continue"

\* TRUE iff calculate_gpa_dakhil(r) raises instead of returning
Raises(r) ==
    IF FirstLoopOutcome(r, 1) # "continue" THEN FirstLoopOutcome(r, 1) = "raise"
    ELSE IF ContinuousOutcome(r) # "continue" THEN ContinuousOutcome(r) = "raise"
    ELSE IsText(r["Mantiq"])

\* DataFrame.copy(): the identity of the frame the copy is
CopyTarget(heap, ref) == Len(heap) + 1

\* the heap after frame ref was copied to identity target
HeapWithCopy(heap, ref, target) ==
    IF target > Len(heap) THEN Append(heap, heap[ref]) ELSE heap

\* frame[col] = values: the column is added to every row of the frame
WithColumn(frame, col, values) ==
    [i \in 1..Len(frame) |-> (col :> values[i]) @@ frame[i]]

\* frame.apply(calculate_gpa_dakhil, axis=1)
ApplyGpa(frame) == [i \in 1..Len(frame) |-> calculate_gpa_dakhil(frame[i])]

\* DataFrame.nlargest(n, column): positions of the n largest values of g,
\* largest first, equal values in table order
RECURSIVE NLargestFrom(_, _, _)
NLargestFrom(g, n, rest) ==
    IF n = 0 \/ rest = {} THEN <<>>
    ELSE LET best == CHOOSE i \in rest :
                        \A j \in rest : g[i] > g[j] \/ (g[i] = g[j] /\ i <= j)
         IN  <<best>> \o NLargestFrom(g, n - 1, rest \ {best})

\* (variant: the first n rows of the table, as DataFrame.head(n))
FirstRows(g, n) == [k \in 1..Min(n, Len(g)) |-> k]
nlargest(g, n) == NLargestFrom(g, n, DOMAIN g)

\* df = create_data_source()
InitBatch ==
    /\ frames = <<create_data_source>>
    /\ df = 1
    /\ df_with_gpa = 0
    /\ df_console = 0
    /\ ws_data = <<>>
    /\ top_5_rows = <<>>
    /\ batch_pc = "created"
    /\ summary = NoSummary
    /\ excel = ClosedBook
    /\ RowIdle
    /\ GpIdle

\* the rows of df are appended to the Data Source sheet
WriteDataSource ==
    /\ batch_pc = "created"
    /\ ws_data' = frames[df]
    /\ batch_pc' = "written"
    /\ UNCHANGED <<frames, df, df_with_gpa, df_console, top_5_rows, summary, excel>>
    /\ UNCHANGED <<rowVars, gpVars>>

\* create_dashboard_sheet: the Top 5 rows are computed on a copy of df.  An
\* error raised by calculate_gpa_dakhil for a record leaves apply,
\* create_dashboard_sheet and generate_excel_file: the run ends there.
DashboardTop5 ==
    /\ batch_pc = "written"
    /\ LET target == CopyTarget(frames, df)
           heap == HeapWithCopy(frames, df, target)
       IN  IF \E i \in 1..Len(heap[target]) : Raises(heap[target][i])
           THEN /\ frames' = heap
                /\ df_with_gpa' = target
                /\ top_5_rows' = top_5_rows
                /\ batch_pc' = "error"
           ELSE LET GPA_calc == ApplyGpa(heap[target])
                    df_sorted == nlargest(GPA_calc, 5)
                IN  /\ frames' = [heap EXCEPT ![target] =
                                     WithColumn(heap[target], "GPA_calc", GPA_calc)]
                    /\ df_with_gpa' = target
                    /\ top_5_rows' = [k \in 1..Len(df_sorted) |-> df_sorted[k] + 1]
                    /\ batch_pc' = "dashboard"
    /\ UNCHANGED <<df, df_console, ws_data, summary, excel>>
    /\ UNCHANGED <<rowVars, gpVars>>

\* wb.save(filename)
SaveWorkbook ==
    /\ batch_pc = "dashboard"
    /\ batch_pc' = "saved"
    /\ UNCHANGED <<frames, df, df_with_gpa, df_console, ws_data, top_5_rows,
                   summary, excel>>
    /\ UNCHANGED <<rowVars, gpVars>>

\* the console summary: GPA and Grade are computed on another copy of df;
\* an error there is caught and the three figures are set to 0.  avg_gpa
\* and pass_rate are held as <<numerator, denominator>>
ConsoleSummary ==
    /\ batch_pc = "saved"
    /\ LET target == CopyTarget(frames, df)
           heap == HeapWithCopy(frames, df, target)
       IN  IF \E i \in 1..Len(heap[target]) : Raises(heap[target][i])
           THEN /\ frames' = heap
                /\ df_console' = target
                /\ summary' = [avg_gpa |-> <<0, 1>>, num_a_plus |-> 0,
                               pass_rate |-> <<0, 1>>]
           ELSE LET GPA == ApplyGpa(heap[target])
                    Grade == [i \in 1..Len(GPA) |-> get_grade(GPA[i])]
                IN  /\ frames' = [heap EXCEPT ![target] =
                                     WithColumn(WithColumn(heap[target], "GPA", GPA),
                                                "Grade", Grade)]
                    /\ df_console' = target
                    /\ summary' =
                          [avg_gpa |-> <<SumSeq(GPA), Len(GPA)>>,
                           num_a_plus |-> Cardinality({i \in 1..Len(Grade) : Grade[i] = "A+"}),
                           pass_rate |->
                               <<Cardinality({i \in 1..Len(GPA) : GPA[i] > 0}) * 100,
                                 Len(heap[target])>>]
    /\ batch_pc' = "done"
    /\ UNCHANGED <<df, df_with_gpa, ws_data, top_5_rows, excel>>
    /\ UNCHANGED <<rowVars, gpVars>>

---------------------------------------------------------------------------
(* The saved workbook in Excel: the Dashboard formulas, and the marks a    *)
(* user changes in the Data Source sheet                                   *)

\* a / b rounded to the nearest integer, halves up (a >= 0, b > 0)
RoundDiv(a, b) == (2 * a + b) \div (2 * b)

\* C5: COUNTA of column B (the header and one name per student) minus 1
Dash_C5(data) == (1 + Len(data)) - 1

\* L5: IF(C5>0, COUNTIF(Y:Y, ">0") / C5, 0), as <<numerator, denominator>>
\* (variant: the criterion ">=0")
Dash_L5_CountsZero(Y, c5) ==
    IF c5 > 0 THEN <<Cardinality({i \in 1..Len(Y) : Y[i] >= 0}), c5>> ELSE <<0, 1>>
Dash_L5(Y, c5) ==
    IF c5 > 0 THEN <<Cardinality({i \in 1..Len(Y) : Y[i] > 0}), c5>> ELSE <<0, 1>>

\* (variant: no row for F)
GradeListWithoutF == <<"A+", "A", "A-", "B", "C", "D">>
grade_list == <<"A+", "A", "A-", "B", "C", "D", "F">>

\* B9:B15: COUNTIF(Z:Z, grade) for each grade of grade_list
Dash_B(Z) ==
    [k \in 1..Len(grade_list) |->
        Cardinality({i \in 1..Len(Z) : Z[i] = grade_list[k]})]

subjects_info == <<
    [name |-> "Quran Mazid",     cols |-> <<"C">>,                full_marks |-> 100, is_multi_col |-> FALSE],
    [name |-> "Arabic (Comb.)",  cols |-> <<"E", "F">>,           full_marks |-> 200, is_multi_col |-> TRUE],
    [name |-> "Aqaid",           cols |-> <<"G">>,                full_marks |-> 100, is_multi_col |-> FALSE],
    [name |-> "English (Comb.)", cols |-> <<"H", "I">>,           full_marks |-> 200, is_multi_col |-> TRUE],
    [name |-> "Bangla (Comb.)",  cols |-> <<"J", "K", "L", "M">>, full_marks |-> 200, is_multi_col |-> TRUE],
    [name |-> "Mathematics",     cols |-> <<"N", "O">>,           full_marks |-> 100, is_multi_col |-> TRUE],
    [name |-> "Islamic History", cols |-> <<"P", "Q">>,           full_marks |-> 100, is_multi_col |-> TRUE],
    [name |-> "ICT",             cols |-> <<"R">>,                full_marks |-> 50,  is_multi_col |-> FALSE],
    [name |-> "Mantiq",          cols |-> <<"S">>,                full_marks |-> 100, is_multi_col |-> FALSE] >>

\* the value Excel uses for the mark cell in column letter c of sheet row n:
\* the student's mark in rows 2 .. N + 1, 0 for a blank cell below them
SheetCell(data, c, n) ==
    IF 2 <= n /\ n <= Len(data) + 1 THEN Cell(data[n - 1], c) ELSE 0

\* the sum of the cells of row n in the columns cols
RowSum(data, cols, n) == SumSeq([j \in 1..Len(cols) |-> SheetCell(data, cols[j], n)])

\* the first and the last row of the ranges of the multi-column formulas
MultiColFirstRow == 3
MultiColLastRow == 22

\* E9:E17, in hundredths: IFERROR(ROUND(AVERAGE(...), 2), 0) of the k-th
\* subject.  A single column is averaged over its numeric cells.  The
\* formula of a multi-column subject adds ranges of rows 3 to 22; it is not
\* stored as an array formula, so what it yields depends on the spreadsheet
\* program: mode "array" adds the ranges row by row and averages the 20
\* sums, mode "intersect" takes from each range the cell in the formula's
\* own row (Dashboard row 8 + k).
Dash_E(data, mode, k) ==
    LET info == subjects_info[k]
        count == MultiColLastRow - MultiColFirstRow + 1
    IN  IF ~ info.is_multi_col
            THEN IF Len(data) = 0 THEN 0
                 ELSE RoundDiv(100 * SumSeq([i \in 1..Len(data) |->
                                               Cell(data[i], info.cols[1])]),
                               Len(data))
        ELSE IF mode = "array"
            THEN RoundDiv(100 * SumSeq([i \in 1..count |->
                              RowSum(data, info.cols, MultiColFirstRow + i - 1)]),
                          count)
        ELSE IF MultiColFirstRow <= 8 + k /\ 8 + k <= MultiColLastRow
            THEN 100 * RowSum(data, info.cols, 8 + k)
        ELSE 0

\* F9:F17, in tenths: IFERROR(ROUND(E / full_marks * 100, 1), 0)
Dash_F(e, k) == RoundDiv(10 * e, subjects_info[k].full_marks)

\* I9:I13: ='Data Source'!Y{row} for each row of top_5_rows
Dash_I(Y, top) == [k \in 1..Len(top) |-> Y[top[k] - 1]]

\* every formula cell of the workbook calculated from the marks in data
Calculated(data, mode, n_edits, top) ==
    LET Y == [i \in 1..Len(data) |-> Col_Y(data[i])]
        Z == [i \in 1..Len(data) |-> Col_Z(Y[i])]
        E == [k \in 1..Len(subjects_info) |-> Dash_E(data, mode, k)]
    IN  [state |-> "open", mode |-> mode, edits |-> n_edits, data |-> data,
         Y |-> Y, Z |-> Z,
         C5 |-> Dash_C5(data),
         L5 |-> Dash_L5(Y, Dash_C5(data)),
         B |-> Dash_B(Z),
         E |-> E,
         F |-> [k \in 1..Len(subjects_info) |-> Dash_F(E[k], k)],
         I |-> Dash_I(Y, top)]

\* the marks a user types into a cell of the Data Source sheet
SheetEdits == {<<"Career_Education", 32>>, <<"Bangla_I_MCQ", 10>>,
               <<"Arabic_I", 100>>}

\* the saved file is opened; fullCalcOnLoad makes Excel calculate every
\* formula
OpenInExcel ==
    /\ batch_pc = "done"
    /\ \E mode \in {"array", "intersect"} :
          excel' = Calculated(ws_data, mode, 0, top_5_rows)
    /\ batch_pc' = "opened"
    /\ UNCHANGED <<frames, df, df_with_gpa, df_console, ws_data, top_5_rows, summary>>
    /\ UNCHANGED <<rowVars, gpVars>>

\* a mark is changed in the Data Source sheet; calcMode 'auto' makes Excel
\* recalculate the formulas
EditMark ==
    /\ batch_pc = "opened"
    /\ excel.edits < MaxEdits
    /\ \E i \in 1..Len(excel.data) : \E e \in SheetEdits :
          /\ excel.data[i][e[1]] # e[2]
          /\ excel' = Calculated([excel.data EXCEPT ![i][e[1]] = e[2]],
                                 excel.mode, excel.edits + 1, top_5_rows)
    /\ UNCHANGED <<frames, df, df_with_gpa, df_console, ws_data, top_5_rows, summary,
                   batch_pc>>
    /\ UNCHANGED <<rowVars, gpVars>>

NextBatch ==
    \/ WriteDataSource
    \/ DashboardTop5
    \/ SaveWorkbook
    \/ ConsoleSummary
    \/ OpenInExcel
    \/ EditMark

SpecBatch == InitBatch /\ [][NextBatch]_vars

---------------------------------------------------------------------------
(* The grading rules as the specification states them, written apart from *)
(* the code's definitions above                                           *)

\* lower bound of a band (percent, inclusive) and its grade point
StatedBands == << <<80, 50000>>, <<70, 40000>>, <<60, 35000>>,
                  <<50, 30000>>, <<40, 20000>>, <<33, 10000>> >>

GradePointValues == {0, 10000, 20000, 30000, 35000, 40000, 50000}

\* the grade point of the highest band whose lower bound m / full reaches
StatedGradePoint(m, full) ==
    LET reached == {i \in 1..Len(StatedBands) : m * 100 >= StatedBands[i][1] * full}
    IN  IF reached = {} THEN 0
        ELSE StatedBands[CHOOSE i \in reached : \A j \in reached : i <= j][2]

\* the eight compulsory subjects: mark columns and full marks
StatedSubjects == <<
    [cols |-> {"Quran", "Hadith"}, full |-> 200],
    [cols |-> {"Arabic_I", "Arabic_II"}, full |-> 200],
    [cols |-> {"Aqaid"}, full |-> 100],
    [cols |-> {"English_I", "English_II"}, full |-> 200],
    [cols |-> {"Bangla_I_MCQ", "Bangla_I_Written", "Bangla_II_MCQ", "Bangla_II_Written"},
     full |-> 200],
    [cols |-> {"Mathematics_MCQ", "Mathematics_Written"}, full |-> 100],
    [cols |-> {"Islamic_History_MCQ", "Islamic_History_Written"}, full |-> 100],
    [cols |-> {"ICT"}, full |-> 50] >>

RECURSIVE SumOver(_, _)
SumOver(r, cols) ==
    IF cols = {} THEN 0
    ELSE LET c == CHOOSE x \in cols : TRUE IN r[c] + SumOver(r, cols \ {c})

RECURSIVE StatedPointSum(_, _)
StatedPointSum(r, n) ==
    IF n = 0 THEN 0
    ELSE StatedGradePoint(SumOver(r, StatedSubjects[n].cols), StatedSubjects[n].full)
         + StatedPointSum(r, n - 1)

\* arithmetic mean of the eight compulsory grade points
StatedMean(r) == StatedPointSum(r, 8) \div 8

\* (mantiqGP - 2.0) / 8 when mantiqGP >= 2.0, otherwise 0
StatedBonus(r) ==
    LET g == StatedGradePoint(r["Mantiq"], 100)
    IN  IF g >= 20000 THEN (g - 20000) \div 8 ELSE 0

\* f is x rounded to two decimals (either neighbour at a tie)
IsRoundOf(f, x) == f % 100 = 0 /\ f - x <= 50 /\ x - f <= 50

\* f is min(5.0, x rounded to two decimals)
IsCappedRoundOf(f, x) ==
    \E r \in {(x \div 100) * 100, (x \div 100) * 100 + 100} :
        IsRoundOf(r, x) /\ f = Min(50000, r)

SimpleGates == {"Quran_Hadith", "Arabic", "Aqaid", "English", "ICT"}
GateNames == SimpleGates \cup {"Bangla", "Mathematics", "Islamic_History",
                               "Career_Education", "Physical_Education"}

StatedGateSubject(n) ==
    IF n = "Quran_Hadith" THEN StatedSubjects[1]
    ELSE IF n = "Arabic" THEN StatedSubjects[2]
    ELSE IF n = "Aqaid" THEN StatedSubjects[3]
    ELSE IF n = "English" THEN StatedSubjects[4]
    ELSE StatedSubjects[8]

\* sum of components >= 0.33 x the full marks the grade point is taken against
PassOfFullMarks(r, n) ==
    SumOver(r, StatedGateSubject(n).cols) * 100 >= 33 * StatedGateSubject(n).full

\* Bangla: the individual route or the combined route
StatedBanglaPass(r) ==
    \/ /\ \A c \in {"Bangla_I_MCQ", "Bangla_II_MCQ"} : r[c] >= 10
       /\ \A w \in {"Bangla_I_Written", "Bangla_II_Written"} : r[w] >= 23
    \/ /\ r["Bangla_I_MCQ"] + r["Bangla_II_MCQ"] >= 20
       /\ r["Bangla_I_Written"] + r["Bangla_II_Written"] >= 46

\* the pass condition of each gate; ICT's minimum is 8.25, 33% of 25 marks
StatedGate(r, n) ==
    IF n = "ICT" THEN r["ICT"] * 100 >= 825
    ELSE IF n \in SimpleGates THEN PassOfFullMarks(r, n)
    ELSE IF n = "Bangla" THEN StatedBanglaPass(r)
    ELSE IF n = "Mathematics"
        THEN r["Mathematics_MCQ"] >= 10 /\ r["Mathematics_Written"] >= 23
    ELSE IF n = "Islamic_History"
        THEN r["Islamic_History_MCQ"] >= 10 /\ r["Islamic_History_Written"] >= 23
    ELSE r[n] >= 33

AllGatesPass(r) == \A n \in GateNames : StatedGate(r, n)
OtherGatesPass(r, n) == \A m \in GateNames \ {n} : StatedGate(r, m)

\* both the Python results and the row's cells are available
Done == pc = "graded" /\ sheet_pc = "calculated"

---------------------------------------------------------------------------
(* Claims *)

\* C1: if any compulsory or continuous-assessment subject fails its pass
\* condition, calculate_gpa_dakhil returns 0.0 and the letter grade is 'F',
\* whatever the other marks are.
C1_GateFailureGivesZeroF ==
    pc = "graded" =>
        (~ AllGatesPass(row) => final_gpa = 0 /\ grade = "F")

\* one compulsory subject (Aqaid) one mark below its threshold, every other
\* subject at full marks
C1_Witness ==
    /\ pc = "graded"
    /\ row = [PerfectRow EXCEPT !["Aqaid"] = 32]
    /\ final_gpa = 0
    /\ grade = "F"

\* C2: calculate_grade_point returns the grade point of the highest band
\* (80, 70, 60, 50, 40, 33 percent, lower bounds inclusive) that
\* marks / full_marks reaches and 0.0 below 33%; the result is one of
\* {0, 1, 2, 3, 3.5, 4, 5} and never decreases when the percentage grows.
C2_GradePointBands ==
    gp_pc = "returned" =>
        /\ gp = StatedGradePoint(marks, full_marks)
        /\ gp \in GradePointValues
        /\ \A f2 \in {50, 100, 200} : \A m2 \in (0 - MarkSlack)..(200 + MarkSlack) :
              m2 * full_marks <= marks * f2 => calculate_grade_point(m2, f2) <= gp

\* exactly 80% of 200 marks is in the top band
C2_Witness ==
    gp_pc = "returned" /\ marks = 160 /\ full_marks = 200 /\ gp = 50000

\* C3: for a record that passes every gate, the final GPA (returned by
\* calculate_gpa_dakhil, and in column Y) is min(5.0, mean of the eight
\* compulsory grade points plus the Mantiq bonus, rounded to two decimals);
\* base GPA 3.0 with Mantiq grade point 3.5 gives 3.19 and 'B'.
C3_FinalGpaFormula ==
    Done =>
        /\ AllGatesPass(row) =>
              /\ IsCappedRoundOf(final_gpa, StatedMean(row) + StatedBonus(row))
              /\ IsCappedRoundOf(sheet.Y, StatedMean(row) + StatedBonus(row))
        /\ row = HalfMarksRow => final_gpa = 31900 /\ grade = "B"

C3_Witness ==
    /\ Done
    /\ row = HalfMarksRow
    /\ StatedMean(row) = 30000
    /\ StatedBonus(row) = 1875
    /\ final_gpa = 31900
    /\ grade = "B"

\* Mantiq marks tried in place of the record's own
MantiqMarks == {-5, 0, 39, 40, 80, 120}

\* C4: Mantiq never gates and never lowers the result.  The bonus is
\* (mantiqGP - 2.0) / 8 when Mantiq's grade point is >= 2.0 and 0 below it
\* (0 at exactly 2.0, 3/8 at 5.0); the final GPA is at least the
\* compulsory-only GPA (column Y >= column X), and no Mantiq mark turns a
\* non-zero final GPA into 0.
C4_MantiqBonusNeverLowers ==
    Done =>
        /\ sheet.AO = StatedBonus(row)
        /\ sheet.Y >= sheet.X
        /\ AllGatesPass(row) =>
              /\ final_gpa + 50 >= StatedMean(row)
              /\ StatedGradePoint(row["Mantiq"], 100) <= 20000
                    => IsRoundOf(final_gpa, StatedMean(row))
              /\ StatedGradePoint(row["Mantiq"], 100) = 50000
                    => IsCappedRoundOf(final_gpa, StatedMean(row) + 3750)
        /\ \A v \in MantiqMarks :
              (calculate_gpa_dakhil([row EXCEPT !["Mantiq"] = v]) = 0) <=> (final_gpa = 0)

\* Mantiq at grade point exactly 2.0 on a base GPA of 3.0: no bonus
C4_Witness ==
    /\ Done
    /\ row = [HalfMarksRow EXCEPT !["Mantiq"] = 40]
    /\ sheet.AM = 20000
    /\ sheet.AO = 0
    /\ final_gpa = 30000
    /\ sheet.Y = sheet.X

\* C5: the final GPA (returned by calculate_gpa_dakhil, and in column Y) is
\* in [0.0, 5.0] for every record, also when base GPA plus bonus exceeds 5.0.
C5_FinalGpaInRange ==
    /\ pc = "graded" => 0 <= final_gpa /\ final_gpa <= 50000
    /\ sheet_pc = "calculated" => 0 <= sheet.Y /\ sheet.Y <= 50000

\* base GPA plus bonus above 5.0 is cut to 5.0
C5_Witness ==
    /\ Done
    /\ AllGatesPass(row)
    /\ StatedMean(row) + StatedBonus(row) > 50000
    /\ final_gpa = 50000
    /\ sheet.Y = 50000

\* lower bound of a letter band (inclusive) and its letter, descending
StatedLetterBands == << <<50000, "A+">>, <<40000, "A">>, <<35000, "A-">>,
                        <<30000, "B">>, <<20000, "C">>, <<10000, "D">> >>

StatedLetter(g) ==
    LET reached == {i \in 1..Len(StatedLetterBands) : g >= StatedLetterBands[i][1]}
    IN  IF reached = {} THEN "F"
        ELSE StatedLetterBands[CHOOSE i \in reached : \A j \in reached : i <= j][2]

\* C6: calculate_letter_grade, get_grade and the column Z formula each map
\* a final GPA in [0, 5] to the letter of the bands >=5.0 A+, >=4.0 A,
\* >=3.5 A-, >=3.0 B, >=2.0 C, >=1.0 D, else F, so they agree.
C6_LetterEncodingsAgree ==
    /\ grade # "" => grade = StatedLetter(final_gpa)
    /\ console_grade # "" => console_grade = StatedLetter(final_gpa) /\ console_grade = grade
    /\ sheet_pc = "calculated" =>
          /\ sheet.Z = StatedLetter(sheet.Y)
          /\ grade # "" /\ sheet.Y = final_gpa => sheet.Z = grade

\* a GPA on a band's lower bound, after all three encodings have run
C6_Witness ==
    /\ final_gpa = 35000
    /\ sheet.Y = 35000
    /\ grade = "A-"
    /\ console_grade = "A-"
    /\ sheet.Z = "A-"

\* C7: Bangla passes iff all four components clear their own minimums
\* (MCQ >= 10, Written >= 23 in both terms) or the totals clear the combined
\* minimums (MCQ >= 20, Written >= 46); term 1 MCQ 8 / Written 25 with
\* term 2 MCQ 15 / Written 25 passes.
C7_BanglaEitherRoute ==
    Done =>
        /\ OtherGatesPass(row, "Bangla") =>
              /\ (final_gpa > 0) <=> StatedBanglaPass(row)
              /\ (sheet.Y > 0) <=> StatedBanglaPass(row)
        /\ sheet.AA <=> ~ StatedBanglaPass(row)

C7_Witness ==
    /\ Done
    /\ row["Bangla_I_MCQ"] = 8 /\ row["Bangla_I_Written"] = 25
    /\ row["Bangla_II_MCQ"] = 15 /\ row["Bangla_II_Written"] = 25
    /\ OtherGatesPass(row, "Bangla")
    /\ final_gpa > 0
    /\ ~ sheet.AA

\* C8 as claimed: each of Quran+Hadith, Arabic, Aqaid, English and ICT
\* passes iff the sum of its components is >= 0.33 x the full marks its
\* grade point is computed against (200, 200, 100, 200, 50).
C8_PassOfFullMarks ==
    pc = "graded" =>
        \A n \in SimpleGates :
            OtherGatesPass(row, n) => ((final_gpa > 0) <=> PassOfFullMarks(row, n))

\* C8 (amended): Quran+Hadith, Arabic, Aqaid and English pass iff the sum
\* of their components is >= 0.33 x their full marks (66, 66, 33, 66); ICT,
\* graded out of 50, passes iff its mark is >= 8.25, 0.33 x 25.
C8_SimpleThresholds ==
    Done =>
        \A n \in SimpleGates :
            OtherGatesPass(row, n) =>
                /\ (final_gpa > 0) <=> StatedGate(row, n)
                /\ (sheet.Y > 0) <=> StatedGate(row, n)
                /\ n # "ICT" => (StatedGate(row, n) <=> PassOfFullMarks(row, n))

\* an ICT mark between 8.25 and 16.5 passes
C8_Witness ==
    /\ Done
    /\ row["ICT"] = 9
    /\ ~ PassOfFullMarks(row, "ICT")
    /\ AllGatesPass(row)
    /\ final_gpa > 0
    /\ sheet.Y > 0

\* passing marks tried for the two continuous-assessment subjects
PassingAssessmentMarks == {33, 100}

\* C9: Career Education and Physical Education each pass iff the mark is
\* >= 33, and they only gate: changing the two marks among passing values
\* changes neither the final GPA nor the letter grade.
C9_AssessmentOnlyGates ==
    pc = "graded" =>
        /\ \A n \in {"Career_Education", "Physical_Education"} :
              OtherGatesPass(row, n) => ((final_gpa > 0) <=> row[n] >= 33)
        /\ row["Career_Education"] >= 33 /\ row["Physical_Education"] >= 33 =>
              \A c \in PassingAssessmentMarks : \A p \in PassingAssessmentMarks :
                  LET other == [row EXCEPT !["Career_Education"] = c,
                                           !["Physical_Education"] = p]
                  IN  /\ calculate_gpa_dakhil(other) = final_gpa
                      /\ calculate_letter_grade(calculate_gpa_dakhil(other)) = grade

\* Career Education at the minimum, everything else at full marks: still 5.0
C9_Witness ==
    /\ pc = "graded"
    /\ row = [PerfectRow EXCEPT !["Career_Education"] = 33]
    /\ final_gpa = 50000
    /\ grade = "A+"

\* the greatest mark of each column (Data Source column comments)
ColumnMax(c) ==
    IF c \in {"Bangla_I_MCQ", "Bangla_II_MCQ", "Mathematics_MCQ", "Islamic_History_MCQ"}
        THEN 30
    ELSE IF c \in {"Bangla_I_Written", "Bangla_II_Written", "Mathematics_Written",
                   "Islamic_History_Written"} THEN 70
    ELSE IF c = "ICT" THEN 50
    ELSE 100

WithinMaxima(r) == \A c \in MarkColumns : 0 <= r[c] /\ r[c] <= ColumnMax(c)

\* every compulsory subject exactly at 80% of its full marks
AllAt80(r) ==
    \A i \in 1..Len(StatedSubjects) :
        SumOver(r, StatedSubjects[i].cols) * 100 = 80 * StatedSubjects[i].full

\* the results of a record with every grade point 5.0
AllFivesAPlus ==
    /\ \A i \in 1..8 : grade_points(row)[i] = 50000 /\ sheet.GP[i] = 50000
    /\ base_gpa(row) = 50000
    /\ sheet.AN = 50000
    /\ final_gpa = 50000
    /\ sheet.Y = 50000
    /\ grade = "A+"
    /\ sheet.Z = "A+"

\* C11 as claimed: every record whose eight compulsory subjects are exactly
\* at 80% of full marks, components within their maxima, has each
\* compulsory grade point 5.0, base GPA 5.0, final GPA 5.0 and grade 'A+'.
C11_Boundary80 ==
    Done => (AllAt80(row) /\ WithinMaxima(row) => AllFivesAPlus)

\* C11 (amended): the same, for the records in which Career Education and
\* Physical Education are both at least 33.
C11_Boundary80Passing ==
    Done =>
        (/\ AllAt80(row) /\ WithinMaxima(row)
         /\ row["Career_Education"] >= 33 /\ row["Physical_Education"] >= 33
         => AllFivesAPlus)

\* Bangla at 160 of 200 on the combined route only (second MCQ paper 0),
\* Mathematics on its MCQ minimum, no Mantiq bonus
C11_Witness ==
    /\ Done
    /\ AllAt80(row) /\ WithinMaxima(row)
    /\ row["Bangla_II_MCQ"] = 0
    /\ row["Mathematics_MCQ"] = 10
    /\ row["Mantiq"] = 0
    /\ row["Career_Education"] = 33
    /\ AllFivesAPlus

\* the record with every mark brought into 0 .. its column's maximum
Clamped(r) ==
    [c \in MarkColumns |->
        IF r[c] < 0 THEN 0 ELSE IF r[c] > ColumnMax(c) THEN ColumnMax(c) ELSE r[c]]

\* C12: calculate_gpa_dakhil never returns an ordinary positive GPA from a
\* record with a mark that is negative or above its maximum: the mark is
\* clamped (the result is the GPA of the clamped record) or the record is
\* flagged or rejected (no positive GPA is returned).
C12_InvalidMarkNotAccepted ==
    pc = "graded" =>
        (~ WithinMaxima(row) =>
            final_gpa = 0 \/ final_gpa = calculate_gpa_dakhil(Clamped(row)))

\* top lists Data Source rows that rank the class by the values Y:
\* five distinct students (all of them in a class of fewer than five), no
\* unlisted student above a listed one, listed in non-increasing order
IsRanking(top, Y) ==
    /\ Len(top) = Min(5, Len(Y))
    /\ \A k \in 1..Len(top) : top[k] - 1 \in 1..Len(Y)
    /\ \A j \in 1..Len(top) : \A k \in 1..Len(top) : j # k => top[j] # top[k]
    /\ \A k \in 1..Len(top) :
          \A i \in 1..Len(Y) \ {top[j] - 1 : j \in 1..Len(top)} : Y[top[k] - 1] >= Y[i]
    /\ \A k \in 1..(Len(top) - 1) : Y[top[k] - 1] >= Y[top[k + 1] - 1]

\* C14 as claimed: in the generated workbook and in every workbook state
\* reached by editing marks, the Top 5 rows are five distinct students with
\* the highest final GPA (column Y), in non-increasing order.
C14_Top5IsRanking ==
    excel.state = "open" => IsRanking(top_5_rows, excel.Y)

\* C14 (amended): the Top 5 rows rank the class by the column Y of the
\* marks the workbook was generated with; before any mark is edited that
\* is the current column Y.  After an edit the list names the same rows,
\* each GPA cell showing its row's current column Y.
C14_Top5AtGeneration ==
    excel.state = "open" =>
        /\ IsRanking(top_5_rows, [i \in 1..Len(ws_data) |-> Col_Y(ws_data[i])])
        /\ excel.edits = 0 => IsRanking(top_5_rows, excel.Y)
        /\ excel.I = [k \in 1..Len(top_5_rows) |-> excel.Y[top_5_rows[k] - 1]]

\* the generated workbook just opened: the students of rows 11, 21, 10, 15
\* and 7 are listed, from 4.63 down to 4.38, and fifteen are not
C14_Witness ==
    /\ excel.state = "open"
    /\ excel.edits = 0
    /\ Len(excel.Y) = 20
    /\ top_5_rows = <<11, 21, 10, 15, 7>>
    /\ excel.I = <<46300, 45600, 45000, 44400, 43800>>
    /\ IsRanking(top_5_rows, excel.Y)
    /\ \E i \in 1..20 : \A k \in 1..5 : excel.Y[i] < excel.I[k]

\* the students of a table that pass every gate
Passers(data) == {i \in 1..Len(data) : AllGatesPass(data[i])}

\* C15 as claimed: the pass rate, in cell L5 and in the console summary, is
\* the fraction of students who pass every gate: the number of records
\* with final GPA > 0 over the number of students, always within [0, 1].
C15_PassRateFraction ==
    /\ excel.state = "open" =>
          /\ excel.L5 = <<Cardinality(Passers(excel.data)), Len(excel.data)>>
          /\ 0 <= excel.L5[1] /\ excel.L5[1] <= excel.L5[2]
    /\ batch_pc \in {"done", "opened"} =>
          /\ summary.pass_rate[1] * Len(ws_data)
                = Cardinality(Passers(ws_data)) * summary.pass_rate[2]
          /\ 0 <= summary.pass_rate[1]
          /\ summary.pass_rate[1] <= summary.pass_rate[2]

\* C15 (amended): cell L5 is the fraction of students who pass every gate,
\* COUNT(Y > 0) / N, within [0, 1], and 0 on a sheet with no students; the
\* console figure is that fraction as a percentage, 100 times
\* COUNT(GPA > 0) / N, within [0, 100]; a record has final GPA > 0 iff it
\* passes every gate.
C15_PassRate ==
    /\ excel.state = "open" =>
          /\ \A i \in 1..Len(excel.data) :
                (excel.Y[i] > 0) <=> (i \in Passers(excel.data))
          /\ excel.L5 = <<Cardinality(Passers(excel.data)), Len(excel.data)>>
          /\ 0 <= excel.L5[1] /\ excel.L5[1] <= excel.L5[2]
          /\ LET none == Dash_L5(<<>>, Dash_C5(<<>>)) IN none[1] = 0 /\ none[2] > 0
    /\ batch_pc \in {"done", "opened"} =>
          /\ \A i \in 1..Len(ws_data) :
                (frames[df_console][i]["GPA"] > 0) <=> (i \in Passers(ws_data))
          /\ summary.pass_rate = <<100 * Cardinality(Passers(ws_data)), Len(ws_data)>>
          /\ 0 <= summary.pass_rate[1]
          /\ summary.pass_rate[1] <= 100 * summary.pass_rate[2]

\* the generated workbook: 15 of the 20 students pass, 75.0 on the console
C15_Witness ==
    /\ excel.state = "open"
    /\ excel.edits = 0
    /\ excel.L5 = <<15, 20>>
    /\ summary.pass_rate = <<1500, 20>>
    /\ summary.pass_rate[1] = 100 * excel.L5[1]
    /\ summary.pass_rate[2] = excel.L5[2]

\* the marks of the k-th Dashboard subject summed over the students of data
RECURSIVE SubjectTotal(_, _, _)
SubjectTotal(data, k, n) ==
    IF n = 0 THEN 0
    ELSE SumSeq([j \in 1..Len(subjects_info[k].cols) |->
                    Cell(data[n], subjects_info[k].cols[j])])
         + SubjectTotal(data, k, n - 1)

\* C16: every subject-wise average of the Dashboard is the average, over
\* the sheet rows 2 to N + 1 that hold the N students, of the sum of the
\* subject's mark columns.
C16_AveragesOverStudentRows ==
    excel.state = "open" =>
        \A k \in 1..Len(subjects_info) :
            excel.E[k] = RoundDiv(100 * SubjectTotal(excel.data, k, Len(excel.data)),
                                  Len(excel.data))

\* C17: every student's Overall Grade (column Z) is one of A+, A, A-, B, C,
\* D, F, and in every workbook state the seven COUNTIF counts add up to the
\* Total Students count.
C17_GradeDistributionPartitions ==
    excel.state = "open" =>
        /\ \A i \in 1..Len(excel.Z) : excel.Z[i] \in {"A+", "A", "A-", "B", "C", "D", "F"}
        /\ Len(excel.Z) = excel.C5
        /\ SumSeq(excel.B) = excel.C5

\* the class of 20 after an edit that fails one more student: students in
\* A, in A- and six in F
C17_Witness ==
    /\ excel.state = "open"
    /\ excel.edits = 1
    /\ excel.C5 = 20
    /\ excel.B[2] > 0
    /\ excel.B[3] > 0
    /\ excel.B[7] = 6
    /\ SumSeq(excel.B) = 20

\* C18: for every record the final GPA returned by calculate_gpa_dakhil
\* equals the value of the workbook's column Y for the same marks, rounding
\* ties included.
C18_RenderingsAgree ==
    Done => final_gpa = sheet.Y

\* C19: the three encodings of the fail determination agree:
\* calculate_gpa_dakhil returns 0.0 from a pass check iff cell AD is TRUE iff
\* debug_fail_check.py lists at least one failed condition; the script
\* lists one condition for each gate the record fails.
C19_FailEncodingsAgree ==
    (pc = "graded" /\ sheet_pc = "checked") =>
        /\ (final_gpa = 0) <=> sheet.AD
        /\ sheet.AD <=> (fail_conditions # <<>>)
        /\ (fail_conditions # <<>>) <=> ~ AllGatesPass(row)
        /\ Len(fail_conditions) = Cardinality({n \in GateNames : ~ StatedGate(row, n)})

\* only Physical Education fails, by one mark
C19_Witness ==
    /\ pc = "graded" /\ sheet_pc = "checked"
    /\ row = [PerfectRow EXCEPT !["Physical_Education"] = 32]
    /\ final_gpa = 0
    /\ sheet.AD
    /\ fail_conditions = <<"Physical">>

\* MCQ >= 10 and Written >= 23 in the subject named n
ComponentsPass(r, n) == r[n \o "_MCQ"] >= 10 /\ r[n \o "_Written"] >= 23

\* C20: Mathematics and Islamic History each pass iff MCQ >= 10 and
\* Written >= 23, in the function, in cells AB and AC and in the debug
\* script; there is no combined route: with MCQ below 10 or Written below
\* 23 in either subject the final GPA is 0.0, whatever the subject's total.
C20_NoCombinedRoute ==
    /\ Done =>
          /\ \A n \in {"Mathematics", "Islamic_History"} :
                /\ OtherGatesPass(row, n) =>
                      /\ (final_gpa > 0) <=> ComponentsPass(row, n)
                      /\ (sheet.Y > 0) <=> ComponentsPass(row, n)
                /\ ~ ComponentsPass(row, n) =>
                      final_gpa = 0 /\ sheet.Y = 0 /\ grade = "F" /\ sheet.Z = "F"
          /\ sheet.AB <=> ~ ComponentsPass(row, "Mathematics")
          /\ sheet.AC <=> ~ ComponentsPass(row, "Islamic_History")
    /\ (pc = "graded" /\ sheet_pc = "checked") =>
          /\ (\E k \in 1..Len(fail_conditions) : fail_conditions[k] = "Math")
                <=> ~ ComponentsPass(row, "Mathematics")
          /\ (\E k \in 1..Len(fail_conditions) : fail_conditions[k] = "History")
                <=> ~ ComponentsPass(row, "Islamic_History")

\* Mathematics at 79 of 100 with its MCQ one mark below the minimum
C20_Witness ==
    /\ Done
    /\ row = [PerfectRow EXCEPT !["Mathematics_MCQ"] = 9]
    /\ row["Mathematics_MCQ"] + row["Mathematics_Written"] = 79
    /\ sheet.AB
    /\ final_gpa = 0
    /\ sheet.Y = 0

\* the subjects of the helper cells AE..AM, in column order
HelperSubjects == <<"Quran_Hadith", "Arabic", "Aqaid", "English", "Bangla",
                    "Mathematics", "Islamic_History", "ICT", "Mantiq">>

\* the helper cell of the k-th subject as the row's cells hold it
HelperCellOf(k) == IF k <= 8 THEN sheet.GP[k] ELSE sheet.AM

\* C21: in the workbook a subject that fails its pass condition has helper
\* grade point 0 (AE..AM test the pass rule before the percentage bands),
\* so the Subject Grades sheet shows 'F' for it and the Subject-wise GPA
\* sheet shows 0, whatever band the subject's total percentage is in.
C21_FailedSubjectShowsZeroAndF ==
    Done =>
        \A k \in 1..Len(HelperSubjects) :
            /\ sheet.SW[k] = HelperCellOf(k)
            /\ ~ StatedGate(row, HelperSubjects[k]) =>
                  /\ HelperCellOf(k) = 0
                  /\ sheet.SG[k] = "F"
                  /\ sheet.SW[k] = 0

\* Mathematics with MCQ 9 and Written 70: 79% in total, MCQ below its minimum
C21_Witness ==
    /\ Done
    /\ row["Mathematics_MCQ"] = 9 /\ row["Mathematics_Written"] = 70
    /\ StatedGradePoint(row["Mathematics_MCQ"] + row["Mathematics_Written"], 100) = 40000
    /\ sheet.GP[6] = 0
    /\ sheet.SG[6] = "F"
    /\ sheet.SW[6] = 0

\* C22: a student who passes every compulsory and continuous-assessment
\* gate has a grade point of at least 1.0 in every compulsory subject (from
\* the function and in cells AE..AL), hence a final GPA of at least 1.0 and
\* a letter grade other than 'F'; 'F' occurs only when some gate fails.
C22_PassersReachGradePointOne ==
    /\ Done /\ AllGatesPass(row) =>
          /\ \A k \in 1..Len(compulsory_subjects) :
                grade_points(row)[k] >= 10000 /\ sheet.GP[k] >= 10000
          /\ final_gpa >= 10000 /\ sheet.Y >= 10000
          /\ grade # "F" /\ console_grade # "F" /\ sheet.Z # "F"
    /\ Done /\ (grade = "F" \/ sheet.Z = "F") => ~ AllGatesPass(row)

\* every mark of r2 is at least the corresponding mark of r1
MarksAtLeast(r2, r1) == \A c \in MarkColumns : r2[c] >= r1[c]

\* C23: the final GPA is monotone in the marks: for any two records where
\* every mark of the second is >= the corresponding mark of the first,
\* calculate_gpa_dakhil of the second is >= that of the first; raising a
\* mark never lowers the final GPA or turns a pass into a fail.
C23_GpaMonotoneInMarks ==
    pc = "gpa" =>
        \A r2 \in MonoRows :
            MarksAtLeast(r2, row) =>
                /\ calculate_gpa_dakhil(r2) >= final_gpa
                /\ final_gpa > 0 => calculate_gpa_dakhil(r2) > 0

\* a passing record (3.75) and the record above it in Mantiq only, whose
\* mean plus bonus 3.875 is rounded to 3.88
C23_Witness ==
    /\ pc = "gpa"
    /\ row = RowOf(<<80, 80, 33, 33, 80, 33, 33, 24, 56, 24, 56, 30, 70, 10, 23,
                     40, 70, 33, 33>>)
    /\ final_gpa = 37500
    /\ \E r2 \in MonoRows :
          /\ MarksAtLeast(r2, row)
          /\ r2["Mantiq"] = 100
          /\ calculate_gpa_dakhil(r2) = 38800

=============================================================================
